---- MODULE Spec2Model ----
(***************************************************************************)
(* Model of the orbital simulation sketch (src/assets/js/orbital_sim.js):  *)
(* the per-frame callback draw(), the orbit object built by                *)
(* createNewOrbit(), the snap-to-first-orbit replay, and the button        *)
(* handlers that start/stop the orbit and the sweeps.                      *)
(*                                                                         *)
(* Numbers.  The sketch computes in IEEE doubles.  The model keeps the     *)
(* arithmetic exact on a grid:                                             *)
(*   - angles are counted in quarter turns, so Math.PI*2 is TwoPi = 4;     *)
(*   - the integrator puts the planet on one of the four unit points of    *)
(*     the axes (the grid of positions); which one, and with which         *)
(*     velocity, is a choice of the action, because the model does not     *)
(*     reproduce the floating-point trajectory;                            *)
(*   - a vector is [x, y, d] standing for (x/d, y/d) in lowest terms;      *)
(*     d = 0 stands for a vector with a non-finite component;              *)
(*   - a scalar ratio is [n, d] in lowest terms; [1, 0] is +Infinity       *)
(*     (a positive number divided by zero).                                *)
(* The sweep-area functions are the exception: there the rounding is what  *)
(* matters, and they are computed in a binary floating-point format with   *)
(* Precision significand bits and round-to-nearest-even.                   *)
(*                                                                         *)
(* Specifications.  Spec is the sketch (frames and buttons); SpecUI adds   *)
(* the reference-circle button.  SpecWindow observes firstOrbitPath.length *)
(* consecutive replay ticks.  SpecArea calls getSweepAreaInAU2 on a path   *)
(* and on its reverse.  SpecHandlers runs the button handlers statement by *)
(* statement.  SpecSubdivided runs updatePlanet_Iterative_Subdivided call  *)
(* by call.                                                                *)
(***************************************************************************)
EXTENDS Integers, Naturals, Sequences, FiniteSets, TLC

VARIABLES stateIsOrbiting, stateIsSweeping, displayReferenceCircle,
          programLocked, orbit, sweeps, sweepButton, clearSweepsButton,
          ticks, window, call

\* the sketch's globals and the tick counter
simVars == <<stateIsOrbiting, stateIsSweeping, displayReferenceCircle,
             programLocked, orbit, sweeps, sweepButton, clearSweepsButton,
             ticks>>

\* window observes a stretch of replay ticks; call is the frame of a
\* function that is run on its own, step by step.  The specifications of
\* the whole sketch leave both alone.
vars == <<stateIsOrbiting, stateIsSweeping, displayReferenceCircle,
          programLocked, orbit, sweeps, sweepButton, clearSweepsButton,
          ticks, window, call>>

\* ---- bounds of the model ----

\* longest firstOrbitPath a LiveSimulation tick may still extend
MaxPath == 4

\* a SnappedReplay tick is taken only while currSnapSubindex is below this
MaxSubindex == 2

\* total number of points recorded over all sweeps
MaxSweepPts == 1

\* the tick counter saturates here (above every count a live orbit reaches)
TickCap == MaxPath

\* significand bits of the floating-point format of the sweep-area functions
Precision == 4

\* the format's smallest step is 2^-FracBits
FracBits == 2

\* longest sweep path handed to getSweepAreaInAU2 on its own
MaxAreaPath == 3

\* subdivCount of updatePlanet_Iterative_Subdivided run on its own ranges
\* over 0 .. MaxSubdiv and the sketch's own value
MaxSubdiv == 2

\* ---- program constants ----

\* let sweepMax = 6;
sweepMax == 6

\* Math.PI*2, in quarter turns
TwoPi == 4

\* the divisor of vInputMag in inputVelocityToPhys
MagPerPhys == 30

\* updatePlanet_Iterative_Subdivided(5, 25, G, dt)
IterCount == 5

SubdivCount == 25

\* values the two velocity input fields may hold when they are read
Mags == {30}

Angles == {0, 90}

\* ---- exact arithmetic ----

Abs(a) == IF a < 0 THEN -a ELSE a

Min(a, b) == IF a < b THEN a ELSE b

RECURSIVE GCD(_, _)
GCD(a, b) == IF b = 0 THEN a ELSE GCD(b, a % b)

\* the ratio n/d (n >= 0, d >= 0, not both 0) in lowest terms
Ratio(n, d) ==
  IF d = 0 THEN [n |-> 1, d |-> 0]
  ELSE LET g == GCD(n, d) IN [n |-> n \div g, d |-> d \div g]

Zero == [n |-> 0, d |-> 1]

IsFinite(r) == r.d # 0

\* a + b; Infinity absorbs
RatAdd(a, b) ==
  IF a.d = 0 \/ b.d = 0 THEN [n |-> 1, d |-> 0]
  ELSE Ratio(a.n * b.d + b.n * a.d, a.d * b.d)

\* a >= 1 (Infinity >= 1 holds)
RatGE1(a) == a.n >= a.d

\* a - 1, used only when a >= 1 (Infinity - 1 is Infinity)
RatSub1(a) == IF a.d = 0 THEN a ELSE Ratio(a.n - a.d, a.d)

\* a < k for an integer k
RatLess(a, k) == a.d # 0 /\ a.n < k * a.d

\* ---- vectors ----

createVector(x, y) == [x |-> x, y |-> y, d |-> 1]

NonFinite == [x |-> 0, y |-> 0, d |-> 0]

\* (x/d, y/d) in lowest terms, d > 0
NormVec(x, y, d) ==
  LET g == GCD(GCD(Abs(x), Abs(y)), d)
  IN  [x |-> x \div g, y |-> y \div g, d |-> d \div g]

\* the grid of positions the integrator lands on
Grid == {createVector(0, -1), createVector(1, 0),
         createVector(0, 1), createVector(-1, 0)}

\* p.angleBetween(q) for two grid points, in quarter turns:
\* acos(dot / (|p||q|)) * sign(cross || 1)
angleBetween(p, q) ==
  LET dot   == p.x * q.x + p.y * q.y
      cross == p.x * q.y - p.y * q.x
      mag   == IF dot > 0 THEN 0 ELSE IF dot = 0 THEN 1 ELSE 2
  IN  IF cross < 0 THEN -mag ELSE mag

Cos(deg) == CASE deg % 360 = 0   -> 1
              [] deg % 360 = 90  -> 0
              [] deg % 360 = 180 -> -1
              [] deg % 360 = 270 -> 0

Sin(deg) == CASE deg % 360 = 0   -> 0
              [] deg % 360 = 90  -> 1
              [] deg % 360 = 180 -> 0
              [] deg % 360 = 270 -> -1

\* Converts from input velocity units to physical velocity units.  The two
\* globals vInputMag and vInputAngle are re-read from the input fields at
\* the start of every call (updateVelocityInputValues), so they are the
\* operator's arguments.
inputVelocityToPhys(vInputMag, vInputAngle) ==
  LET vMagPhys == vInputMag \div MagPerPhys
  IN  createVector(vMagPhys * Cos(vInputAngle),
                   -1 * vMagPhys * Sin(vInputAngle))

Velocities == {inputVelocityToPhys(m, a) : m \in Mags, a \in Angles}

\* ---- the orbit object ----

\* createNewOrbit with a firstOrbitPath that is not seeded with the
\* initial position
createNewOrbit_unseeded(vInputMag, vInputAngle) ==
  [xPlanet                |-> createVector(0, -1),
   vPlanet                |-> inputVelocityToPhys(vInputMag, vInputAngle),
   isFirstOrbit           |-> TRUE,
   angularChangeThisOrbit |-> 0,
   firstOrbitPath         |-> <<>>,
   currSnapIndex          |-> 0,
   currSnapSubindex       |-> Zero,
   indexCarryOver         |-> Zero]

createNewOrbit(vInputMag, vInputAngle) ==
  [xPlanet                |-> createVector(0, -1),
   vPlanet                |-> inputVelocityToPhys(vInputMag, vInputAngle),
   isFirstOrbit           |-> TRUE,
   angularChangeThisOrbit |-> 0,
   firstOrbitPath         |-> <<createVector(0, -1)>>,
   currSnapIndex          |-> 0,
   currSnapSubindex       |-> Zero,
   indexCarryOver         |-> Zero]

\* ---- planet update functions ----

\* One call of updatePlanet_Iterative on the planet state s = [x, v]: the
\* set of states it may commit.  The iteration is a floating-point
\* fixed-point solve; on the grid its outcome is any grid position with any
\* velocity.
updatePlanet_Iterative(iterCount, s) ==
  {[x |-> p, v |-> w] : p \in Grid, w \in Velocities}

\* subdivCount calls in sequence, each from the states the previous one
\* may have committed
RECURSIVE updatePlanet_Iterative_Subdivided(_, _, _)
updatePlanet_Iterative_Subdivided(iterCount, subdivCount, S) ==
  IF subdivCount = 0 THEN S
  ELSE updatePlanet_Iterative_Subdivided(iterCount, subdivCount - 1,
         UNION {updatePlanet_Iterative(iterCount, s) : s \in S})

\* path[index] is undefined, and p1.copy() throws a TypeError
interpolateThrows(path, index) == index < 0 \/ index >= Len(path)

\* p1.copy().mult(subindex).add(p2.copy().mult(1-subindex)), as the set of
\* vectors it may return.  index is 0-based as in the source.  With a
\* non-finite subindex the vector library either multiplies (giving
\* non-finite components) or refuses the factor and leaves the copies
\* unscaled, depending on its version.
interpolatePosition(path, index, subindex) ==
  LET p1 == path[index + 1]
      p2 == path[((index + 1) % Len(path)) + 1]
  IN  IF IsFinite(subindex)
      THEN LET n == subindex.n
               d == subindex.d
           IN  {NormVec(p1.x * n * p2.d + p2.x * (d - n) * p1.d,
                        p1.y * n * p2.d + p2.y * (d - n) * p1.d,
                        p1.d * p2.d * d)}
      ELSE {NonFinite,
            NormVec(p1.x * p2.d + p2.x * p1.d,
                    p1.y * p2.d + p2.y * p1.d, p1.d * p2.d)}

\* ---- draw(): one frame ----

RECURSIVE SweepPts(_)
SweepPts(s) == IF s = <<>> THEN 0 ELSE Len(Head(s)) + SweepPts(Tail(s))

\* the first-orbit branch closing the orbit already at a full turn
\* (>= in place of >)
draw_firstOrbit_closesAtFullTurn(o, r) ==
  LET path        == Append(o.firstOrbitPath, r.x)
      xPlanetPrev == path[Len(path) - 1]
      angular     == o.angularChangeThisOrbit
                       + Abs(angleBetween(xPlanetPrev, r.x))
      moved       == [o EXCEPT !.xPlanet = r.x, !.vPlanet = r.v,
                               !.firstOrbitPath = path,
                               !.angularChangeThisOrbit = angular]
  IN  IF angular >= TwoPi
      THEN LET angleCarryOver == angular - TwoPi
               firstStepAngle == Abs(angleBetween(path[2], path[1]))
               indexCarryOver == Ratio(angleCarryOver, firstStepAngle)
           IN  [moved EXCEPT !.isFirstOrbit = FALSE,
                             !.indexCarryOver = indexCarryOver,
                             !.currSnapIndex = 0,
                             !.currSnapSubindex = indexCarryOver]
      ELSE moved

\* the first-orbit branch adding the signed angle (Math.abs left out); the
\* carry-over is kept non-negative so that only the accumulation differs
draw_firstOrbit_signedAngle(o, r) ==
  LET path        == Append(o.firstOrbitPath, r.x)
      xPlanetPrev == path[Len(path) - 1]
      angular     == o.angularChangeThisOrbit
                       + angleBetween(xPlanetPrev, r.x)
      moved       == [o EXCEPT !.xPlanet = r.x, !.vPlanet = r.v,
                               !.firstOrbitPath = path,
                               !.angularChangeThisOrbit = angular]
  IN  IF angular > TwoPi
      THEN LET angleCarryOver == angular - TwoPi
               firstStepAngle == Abs(angleBetween(path[2], path[1]))
               indexCarryOver == Ratio(angleCarryOver, firstStepAngle)
           IN  [moved EXCEPT !.isFirstOrbit = FALSE,
                             !.indexCarryOver = indexCarryOver,
                             !.currSnapIndex = 0,
                             !.currSnapSubindex = indexCarryOver]
      ELSE moved

\* The first-orbit branch of draw() (lines 382-408), after the integrator
\* committed r = [x, v]: record the point, add the unsigned angle to the
\* previous point, and set up the snap when a full turn is exceeded.
draw_firstOrbit(o, r) ==
  LET path        == Append(o.firstOrbitPath, r.x)
      xPlanetPrev == path[Len(path) - 1]
      angular     == o.angularChangeThisOrbit
                       + Abs(angleBetween(xPlanetPrev, r.x))
      moved       == [o EXCEPT !.xPlanet = r.x, !.vPlanet = r.v,
                               !.firstOrbitPath = path,
                               !.angularChangeThisOrbit = angular]
  IN  IF angular > TwoPi
      THEN LET angleCarryOver == angular - TwoPi
               firstStepAngle == Abs(angleBetween(path[2], path[1]))
               indexCarryOver == Ratio(angleCarryOver, firstStepAngle)
           IN  [moved EXCEPT !.isFirstOrbit = FALSE,
                             !.indexCarryOver = indexCarryOver,
                             !.currSnapIndex = 0,
                             !.currSnapSubindex = indexCarryOver]
      ELSE moved

\* the wrap restarting the subindex at indexCarryOver instead of adding
\* indexCarryOver to it
draw_snapIndex_restartsSubindex(o) ==
  LET index == o.currSnapIndex + 1
  IN  IF index = Len(o.firstOrbitPath)
      THEN LET sub == o.indexCarryOver
           IN  IF RatGE1(sub)
               THEN [o EXCEPT !.currSnapIndex = 1,
                              !.currSnapSubindex = RatSub1(sub)]
               ELSE [o EXCEPT !.currSnapIndex = 0,
                              !.currSnapSubindex = sub]
      ELSE [o EXCEPT !.currSnapIndex = index]

\* the wrap test letting the index reach firstOrbitPath.length
draw_snapIndex_wrapsLate(o) ==
  LET index == o.currSnapIndex + 1
  IN  IF index > Len(o.firstOrbitPath)
      THEN LET sub == RatAdd(o.currSnapSubindex, o.indexCarryOver)
           IN  IF RatGE1(sub)
               THEN [o EXCEPT !.currSnapIndex = 1,
                              !.currSnapSubindex = RatSub1(sub)]
               ELSE [o EXCEPT !.currSnapIndex = 0,
                              !.currSnapSubindex = sub]
      ELSE [o EXCEPT !.currSnapIndex = index]

\* The index bookkeeping of the snap branch (lines 411-421).
draw_snapIndex(o) ==
  LET index == o.currSnapIndex + 1
  IN  IF index = Len(o.firstOrbitPath)
      THEN LET sub == RatAdd(o.currSnapSubindex, o.indexCarryOver)
           IN  IF RatGE1(sub)
               THEN [o EXCEPT !.currSnapIndex = 1,
                              !.currSnapSubindex = RatSub1(sub)]
               ELSE [o EXCEPT !.currSnapIndex = 0,
                              !.currSnapSubindex = sub]
      ELSE [o EXCEPT !.currSnapIndex = index]

\* draw_orbit whose snap branch also records the interpolated point in
\* firstOrbitPath
draw_orbit_snapRecords(o) ==
  IF o.isFirstOrbit
  THEN {draw_firstOrbit(o, r) :
          r \in updatePlanet_Iterative_Subdivided(IterCount, SubdivCount,
                  {[x |-> o.xPlanet, v |-> o.vPlanet]})}
  ELSE LET s == draw_snapIndex(o)
       IN  {[s EXCEPT !.xPlanet = x,
                      !.firstOrbitPath = Append(@, x)] :
              x \in interpolatePosition(s.firstOrbitPath, s.currSnapIndex,
                                        s.currSnapSubindex)}

\* draw_orbit whose snap branch keeps running the integrator for the
\* velocity
draw_orbit_snapIntegrates(o) ==
  IF o.isFirstOrbit
  THEN {draw_firstOrbit(o, r) :
          r \in updatePlanet_Iterative_Subdivided(IterCount, SubdivCount,
                  {[x |-> o.xPlanet, v |-> o.vPlanet]})}
  ELSE LET s == draw_snapIndex(o)
       IN  {[s EXCEPT !.xPlanet = x, !.vPlanet = r.v] :
              x \in interpolatePosition(s.firstOrbitPath, s.currSnapIndex,
                                        s.currSnapSubindex),
              r \in updatePlanet_Iterative_Subdivided(IterCount, SubdivCount,
                      {[x |-> o.xPlanet, v |-> o.vPlanet]})}

\* The replay tick taken from o throws in interpolatePosition.
draw_throws(o) ==
  /\ ~o.isFirstOrbit
  /\ LET s == draw_snapIndex(o)
     IN  interpolateThrows(s.firstOrbitPath, s.currSnapIndex)

\* The orbits draw() may leave behind when stateIsOrbiting holds.  When
\* interpolatePosition throws, the indices are already assigned and
\* xPlanet is not.
draw_orbit(o) ==
  IF o.isFirstOrbit
  THEN {draw_firstOrbit(o, r) :
          r \in updatePlanet_Iterative_Subdivided(IterCount, SubdivCount,
                  {[x |-> o.xPlanet, v |-> o.vPlanet]})}
  ELSE LET s == draw_snapIndex(o)
       IN  IF draw_throws(o) THEN {s}
           ELSE {[s EXCEPT !.xPlanet = x] :
                   x \in interpolatePosition(s.firstOrbitPath,
                                             s.currSnapIndex,
                                             s.currSnapSubindex)}

\* the push going to the first sweep instead of the last
draw_sweep_firstSweep(s, x) ==
  IF s = <<>> THEN s ELSE [s EXCEPT ![1] = Append(@, x)]

\* sweeps[sweeps.length-1].push(orbit.xPlanet); with no sweep to push to
\* the statement throws and sweeps is left as it was.
draw_sweep(s, x) ==
  IF s = <<>> THEN s ELSE [s EXCEPT ![Len(s)] = Append(@, x)]

\* The frame is taken only inside the bounds of the model.
drawInBounds ==
  stateIsOrbiting =>
    /\ orbit.isFirstOrbit => Len(orbit.firstOrbitPath) < MaxPath
    /\ (~orbit.isFirstOrbit /\ IsFinite(orbit.currSnapSubindex))
         => RatLess(orbit.currSnapSubindex, MaxSubindex)
    /\ stateIsSweeping => SweepPts(sweeps) < MaxSweepPts

\* draw() running the tick without testing stateIsOrbiting
draw_body_alwaysTicks ==
  /\ orbit.isFirstOrbit => Len(orbit.firstOrbitPath) < MaxPath
  /\ (~orbit.isFirstOrbit /\ IsFinite(orbit.currSnapSubindex))
       => RatLess(orbit.currSnapSubindex, MaxSubindex)
  /\ stateIsSweeping => SweepPts(sweeps) < MaxSweepPts
  /\ orbit' \in draw_orbit(orbit)
  /\ sweeps' = IF stateIsSweeping /\ ~draw_throws(orbit)
               THEN draw_sweep(sweeps, orbit'.xPlanet)
               ELSE sweeps
  /\ ticks' = Min(ticks + 1, TickCap)
  /\ UNCHANGED <<stateIsOrbiting, stateIsSweeping, displayReferenceCircle,
                 programLocked, sweepButton, clearSweepsButton>>

draw_body ==
  /\ drawInBounds
  /\ IF stateIsOrbiting
     THEN /\ orbit' \in draw_orbit(orbit)
          /\ sweeps' = IF stateIsSweeping /\ ~draw_throws(orbit)
                       THEN draw_sweep(sweeps, orbit'.xPlanet)
                       ELSE sweeps
          /\ ticks' = Min(ticks + 1, TickCap)
     ELSE UNCHANGED <<orbit, sweeps, ticks>>
  /\ UNCHANGED <<stateIsOrbiting, stateIsSweeping, displayReferenceCircle,
                 programLocked, sweepButton, clearSweepsButton>>

draw == draw_body /\ UNCHANGED <<window, call>>

\* ---- interactive elements ----

\* The globals the action_ functions write, as one record.
Globals ==
  [stateIsOrbiting        |-> stateIsOrbiting,
   stateIsSweeping        |-> stateIsSweeping,
   displayReferenceCircle |-> displayReferenceCircle,
   orbit                  |-> orbit,
   sweeps                 |-> sweeps,
   sweepButton            |-> sweepButton,
   clearSweepsButton      |-> clearSweepsButton]

Commit(g) ==
  /\ stateIsOrbiting' = g.stateIsOrbiting
  /\ stateIsSweeping' = g.stateIsSweeping
  /\ displayReferenceCircle' = g.displayReferenceCircle
  /\ orbit' = g.orbit
  /\ sweeps' = g.sweeps
  /\ sweepButton' = g.sweepButton
  /\ clearSweepsButton' = g.clearSweepsButton

\* action_startOrbit that launches the orbit object already there
action_startOrbit_keepsOrbit(g, vInputMag, vInputAngle) ==
  [g EXCEPT !.stateIsOrbiting = TRUE,
            !.sweepButton.display = "block"]

action_startOrbit(g, vInputMag, vInputAngle) ==
  [g EXCEPT !.stateIsOrbiting = TRUE,
            !.orbit = createNewOrbit(vInputMag, vInputAngle),
            !.sweepButton.display = "block"]

action_endOrbit(g, vInputMag, vInputAngle) ==
  [g EXCEPT !.stateIsOrbiting = FALSE,
            !.orbit = createNewOrbit(vInputMag, vInputAngle),
            !.sweepButton.display = "none",
            !.clearSweepsButton.display = "none"]

action_startSweep(g) ==
  [g EXCEPT !.stateIsSweeping = TRUE,
            !.sweeps = Append(@, <<>>),
            !.clearSweepsButton.display = "none"]

\* action_endSweep that never disables the sweep button
action_endSweep_neverDisables(g) ==
  [g EXCEPT !.stateIsSweeping = FALSE,
            !.clearSweepsButton.display = "block"]

action_endSweep(g) ==
  [g EXCEPT !.stateIsSweeping = FALSE,
            !.sweepButton.disabled =
               IF Len(g.sweeps) = sweepMax THEN TRUE ELSE @,
            !.clearSweepsButton.display = "block"]

\* action_clearAllSweeps that leaves the sweep button as it is
action_clearAllSweeps_keepsDisabled(g) ==
  [g EXCEPT !.sweeps = <<>>]

action_clearAllSweeps(g) ==
  [g EXCEPT !.sweeps = <<>>,
            !.sweepButton.disabled = FALSE]

action_showReferenceCircle(g) == [g EXCEPT !.displayReferenceCircle = TRUE]

action_hideReferenceCircle(g) == [g EXCEPT !.displayReferenceCircle = FALSE]

\* A click reaches the handler only on a button that is shown and enabled.
Clickable(b) == b.display = "block" /\ ~b.disabled

\* what button_toggleOrbit does between taking and releasing the lock
toggleOrbit_actions(g, vInputMag, vInputAngle) ==
  IF g.stateIsOrbiting
  THEN action_endOrbit(
         action_clearAllSweeps(
           IF g.stateIsSweeping THEN action_endSweep(g) ELSE g),
         vInputMag, vInputAngle)
  ELSE action_startOrbit(g, vInputMag, vInputAngle)

toggleSweep_actions(g) ==
  IF g.stateIsSweeping THEN action_endSweep(g) ELSE action_startSweep(g)

toggleReferenceCircle_actions(g) ==
  IF g.displayReferenceCircle
  THEN action_hideReferenceCircle(g)
  ELSE action_showReferenceCircle(g)

\* button_toggleOrbit with the values the input fields hold when
\* createNewOrbit reads them
toggleOrbit_body(vInputMag, vInputAngle) ==
  IF programLocked THEN UNCHANGED simVars
  ELSE /\ programLocked' = FALSE
       /\ ticks' = 0
       /\ Commit(toggleOrbit_actions(Globals, vInputMag, vInputAngle))

toggleOrbit(vInputMag, vInputAngle) ==
  toggleOrbit_body(vInputMag, vInputAngle) /\ UNCHANGED <<window, call>>

button_toggleOrbit ==
  \E vInputMag \in Mags, vInputAngle \in Angles :
    toggleOrbit(vInputMag, vInputAngle)

button_toggleSweep ==
  /\ Clickable(sweepButton)
  /\ IF programLocked THEN UNCHANGED vars
     ELSE /\ Commit(toggleSweep_actions(Globals))
          /\ programLocked' = FALSE
          /\ UNCHANGED <<ticks, window, call>>

button_clearAllSweeps ==
  /\ Clickable(clearSweepsButton)
  /\ IF programLocked THEN UNCHANGED vars
     ELSE /\ Commit(action_clearAllSweeps(Globals))
          /\ programLocked' = FALSE
          /\ UNCHANGED <<ticks, window, call>>

button_toggleReferenceCircle ==
  IF programLocked THEN UNCHANGED vars
  ELSE /\ Commit(toggleReferenceCircle_actions(Globals))
       /\ programLocked' = FALSE
       /\ UNCHANGED <<ticks, window, call>>

\* ---- the sketch ----

\* no stretch of replay ticks is being observed
NoWindow == [open |-> FALSE, start |-> Zero, n |-> 0, wraps |-> 0]

\* no function is being run on its own
NoCall == [pc |-> "none"]

\* The globals' initialisers and setup().  The sweep and clear-sweeps
\* buttons start hidden, as action_endOrbit leaves them; the orbit button
\* and the reference-circle button are always shown.
InitSketch ==
  /\ stateIsOrbiting = FALSE
  /\ stateIsSweeping = FALSE
  /\ displayReferenceCircle = FALSE
  /\ programLocked = FALSE
  /\ \E m \in Mags, a \in Angles : orbit = createNewOrbit(m, a)
  /\ sweeps = <<>>
  /\ sweepButton = [display |-> "none", disabled |-> FALSE]
  /\ clearSweepsButton = [display |-> "none", disabled |-> FALSE]
  /\ ticks = 0

Init ==
  /\ InitSketch
  /\ window = NoWindow
  /\ call = NoCall

\* The reference-circle button writes displayReferenceCircle only, and
\* nothing but the drawing of the circle reads it: Next leaves the button
\* out and NextUI adds it.
Next ==
  \/ draw
  \/ button_toggleOrbit
  \/ button_toggleSweep
  \/ button_clearAllSweeps

Spec == Init /\ [][Next]_vars

NextUI ==
  \/ Next
  \/ button_toggleReferenceCircle

SpecUI == Init /\ [][NextUI]_vars

\* ---- SnappedReplay observed over firstOrbitPath.length ticks ----

\* the replay pointer currSnapIndex + currSnapSubindex
Pointer(o) == RatAdd(Ratio(o.currSnapIndex, 1), o.currSnapSubindex)

\* k times a ratio, k >= 1
RatTimes(r, k) == Ratio(r.n * k, r.d)

\* the replay tick taken from o wraps: currSnapIndex++ reaches
\* firstOrbitPath.length
Wraps(o) == o.currSnapIndex + 1 = Len(o.firstOrbitPath)

\* An observer starts a window at the current replay position.
window_open ==
  /\ stateIsOrbiting
  /\ ~orbit.isFirstOrbit
  /\ ~window.open
  /\ window' = [open |-> TRUE, start |-> Pointer(orbit), n |-> 0,
                wraps |-> 0]
  /\ UNCHANGED <<simVars, call>>

\* A frame.  A replay tick inside an open window is counted, with its
\* wrap; the frame after the window's last tick closes the window.
window_draw ==
  /\ draw_body
  /\ window' = IF window.open /\ stateIsOrbiting /\ ~orbit.isFirstOrbit
               THEN IF window.n < Len(orbit.firstOrbitPath)
                    THEN [window EXCEPT
                            !.n = @ + 1,
                            !.wraps = @ + IF Wraps(orbit) THEN 1 ELSE 0]
                    ELSE NoWindow
               ELSE window
  /\ UNCHANGED call

\* The orbit button; a new orbit ends the observation.
window_toggleOrbit ==
  /\ \E vInputMag \in Mags, vInputAngle \in Angles :
       toggleOrbit_body(vInputMag, vInputAngle)
  /\ window' = NoWindow
  /\ UNCHANGED call

\* The sweep buttons are left out: the replay pointer is written by draw()
\* and createNewOrbit() only.
NextWindow ==
  \/ window_draw
  \/ window_open
  \/ window_toggleOrbit

SpecWindow == Init /\ [][NextWindow]_vars

\* ---- utilities for computing sweep data ----

\* The sweep-area functions compute in IEEE doubles, every operation
\* rounded to nearest, ties to even.  The model keeps the rounding and
\* shortens the format: a number is an integer count of steps of
\* 2^-FracBits with at most Precision significant bits.  NaN is the result
\* of Math.sqrt on a negative number; areas are never negative, so -1
\* stands for it.
NaN == -1

Max(a, b) == IF a < b THEN b ELSE a

RECURSIVE BitLength(_)
BitLength(n) == IF n = 0 THEN 0 ELSE 1 + BitLength(n \div 2)

\* floor of the square root of n >= 0
RECURSIVE ISqrt(_)
ISqrt(n) ==
  IF n < 2 THEN n
  ELSE LET s == 2 * ISqrt(n \div 4)
       IN  IF (s + 1) * (s + 1) <= n THEN s + 1 ELSE s

\* the number of the format nearest to n / 2^dexp, ties to even
Round(n, dexp) ==
  LET m  == Abs(n)
      k  == Max(Max(BitLength(m) - Precision, dexp), 0)
      q  == m \div 2^k
      r  == m % 2^k
      up == 2 * r > 2^k \/ (2 * r = 2^k /\ q % 2 = 1)
      v  == (IF up THEN q + 1 ELSE q) * 2^(k - dexp)
  IN  IF n < 0 THEN -v ELSE v

fadd(a, b) == Round(a + b, 0)

fsub(a, b) == Round(a - b, 0)

fmul(a, b) == Round(a * b, FracBits)

fhalf(a) == Round(a, 1)

\* Math.sqrt, correctly rounded (two guard digits and a sticky bit)
fsqrt(a) ==
  IF a < 0 THEN NaN
  ELSE LET guard  == Precision + 2
           N      == a * 2^FracBits * 2^(2 * guard)
           r      == ISqrt(N)
           sticky == IF r * r = N THEN 0 ELSE 1
       IN  Round(2 * r + sticky, guard + 1)

\* total += area
faddArea(total, area) ==
  IF total = NaN \/ area = NaN THEN NaN ELSE fadd(total, area)

\* a === b for two returned areas (NaN equals nothing)
SameNumber(a, b) == a # NaN /\ a = b

\* a position whose coordinates are numbers of the format
areaVector(x, y) == [x |-> x, y |-> y]

\* p.dist(q): the magnitude of q - p
dist(p, q) ==
  LET dx == fsub(q.x, p.x)
      dy == fsub(q.y, p.y)
  IN  fsqrt(fadd(fmul(dx, dx), fmul(dy, dy)))

\* the array sides of getTriangleArea
triangleSides(points) ==
  <<dist(points[1], points[2]),
    dist(points[2], points[3]),
    dist(points[3], points[1])>>

getTriangleArea(points) ==
  LET sides == triangleSides(points)
      s     == fhalf(fadd(fadd(sides[1], sides[2]), sides[3]))
  IN  fsqrt(fmul(fmul(fmul(s, fsub(s, sides[1])),
                      fsub(s, sides[2])),
                 fsub(s, sides[3])))

\* the loop of getSweepAreaInAU2 closing the path: it runs up to
\* sweepPath.length and joins the last point to the first
sweepSegments_closed(sweepPath) ==
  [i \in 1 .. Len(sweepPath) |->
     <<areaVector(0, 0), sweepPath[i],
       sweepPath[(i % Len(sweepPath)) + 1]>>]

\* The triangles [center, p1, p2] the loop of getSweepAreaInAU2 hands to
\* getTriangleArea, in the order of the loop: one for each i with
\* 0 <= i < sweepPath.length - 1, and these are the only reads of the path.
sweepSegments(sweepPath) ==
  [i \in 1 .. Len(sweepPath) - 1 |->
     <<areaVector(0, 0), sweepPath[i], sweepPath[i + 1]>>]

RECURSIVE sumAreas(_, _, _)
sumAreas(segments, i, total) ==
  IF i > Len(segments) THEN total
  ELSE sumAreas(segments, i + 1,
                faddArea(total, getTriangleArea(segments[i])))

getSweepAreaInAU2(sweepPath) == sumAreas(sweepSegments(sweepPath), 1, 0)

RECURSIVE Reverse(_)
Reverse(s) == IF s = <<>> THEN <<>> ELSE Append(Reverse(Tail(s)), Head(s))

\* -- getSweepAreaInAU2 run on its own --

\* coordinates of the points of the paths: 0, 1 and 2
AreaCoords == {0, 2^FracBits, 2 * 2^FracBits}

AreaPoints == {areaVector(x, y) : x \in AreaCoords, y \in AreaCoords}

RECURSIVE AreaPaths(_)
AreaPaths(n) ==
  IF n = 0 THEN {<<>>}
  ELSE LET shorter == AreaPaths(n - 1)
       IN  shorter \cup {Append(p, v) : p \in {q \in shorter : Len(q) = n - 1},
                                        v \in AreaPoints}

\* the sketch as constructed, about to call getSweepAreaInAU2 on a path
InitArea ==
  /\ InitSketch
  /\ window = NoWindow
  /\ call \in {[pc |-> "getSweepAreaInAU2", sweepPath |-> p, total |-> 0] :
                 p \in AreaPaths(MaxAreaPath)}

call_getSweepAreaInAU2 ==
  /\ call.pc = "getSweepAreaInAU2"
  /\ call' = [call EXCEPT !.pc = "returned",
                          !.total = getSweepAreaInAU2(call.sweepPath)]
  /\ UNCHANGED <<simVars, window>>

NextArea == call_getSweepAreaInAU2

SpecArea == InitArea /\ [][NextArea]_vars

\* ---- the button handlers, statement by statement ----

\* A handler runs to completion before the browser delivers the next
\* event: a press is delivered only when no handler is in progress
\* (call.pc = "none").  Frames are left out: draw() reads and writes
\* neither programLocked nor anything else the handlers test.

\* if (programLocked) return null;  programLocked = true;
handler_enter(name) ==
  /\ call.pc = "none"
  /\ IF programLocked THEN UNCHANGED vars
     ELSE /\ programLocked' = TRUE
          /\ call' = [pc |-> "actions", handler |-> name]
          /\ UNCHANGED <<stateIsOrbiting, stateIsSweeping,
                         displayReferenceCircle, orbit, sweeps,
                         sweepButton, clearSweepsButton, ticks, window>>

\* the action_ calls of the handler, leaving the globals as g
handler_actions(name, g) ==
  /\ call.pc = "actions"
  /\ call.handler = name
  /\ Commit(g)
  /\ call' = [call EXCEPT !.pc = "release"]
  /\ UNCHANGED <<programLocked, ticks, window>>

\* the release left out at the end of button_toggleReferenceCircle
handler_release_notAfterReferenceCircle ==
  /\ call.pc = "release"
  /\ programLocked' = (call.handler = "button_toggleReferenceCircle")
  /\ call' = NoCall
  /\ UNCHANGED <<stateIsOrbiting, stateIsSweeping, displayReferenceCircle,
                 orbit, sweeps, sweepButton, clearSweepsButton, ticks,
                 window>>

\* programLocked = false; and the handler returns
handler_release ==
  /\ call.pc = "release"
  /\ programLocked' = FALSE
  /\ call' = NoCall
  /\ UNCHANGED <<stateIsOrbiting, stateIsSweeping, displayReferenceCircle,
                 orbit, sweeps, sweepButton, clearSweepsButton, ticks,
                 window>>

press_toggleOrbit == handler_enter("button_toggleOrbit")

run_toggleOrbit ==
  \E vInputMag \in Mags, vInputAngle \in Angles :
    handler_actions("button_toggleOrbit",
                    toggleOrbit_actions(Globals, vInputMag, vInputAngle))

press_toggleSweep ==
  Clickable(sweepButton) /\ handler_enter("button_toggleSweep")

run_toggleSweep ==
  handler_actions("button_toggleSweep", toggleSweep_actions(Globals))

press_clearAllSweeps ==
  Clickable(clearSweepsButton) /\ handler_enter("button_clearAllSweeps")

run_clearAllSweeps ==
  handler_actions("button_clearAllSweeps", action_clearAllSweeps(Globals))

press_toggleReferenceCircle == handler_enter("button_toggleReferenceCircle")

run_toggleReferenceCircle ==
  handler_actions("button_toggleReferenceCircle",
                  toggleReferenceCircle_actions(Globals))

NextHandlers ==
  \/ press_toggleOrbit
  \/ run_toggleOrbit
  \/ press_toggleSweep
  \/ run_toggleSweep
  \/ press_clearAllSweeps
  \/ run_clearAllSweeps
  \/ press_toggleReferenceCircle
  \/ run_toggleReferenceCircle
  \/ handler_release

SpecHandlers == Init /\ [][NextHandlers]_vars

\* ---- updatePlanet_Iterative_Subdivided, statement by statement ----

\* let dt = 1.1e-2
dt == Ratio(11, 1000)

\* r / k for an integer k >= 1
RatOver(r, k) == Ratio(r.n, r.d * k)

\* The frame of the call: its arguments, the loop counter i and, while
\* updatePlanet_Iterative runs, that call's arguments (argIterCount, argDt),
\* its locals xCurr and vCurr, its loop counter j and the globals xNext and
\* vNext it assigns (NonFinite stands for not assigned yet).  calls lists
\* the calls of updatePlanet_Iterative that have returned.
SubdividedFrame(iterCount, subdivCount) ==
  [pc |-> "subdivided", iterCount |-> iterCount,
   subdivCount |-> subdivCount, dt |-> dt, i |-> 0, calls |-> <<>>,
   argIterCount |-> 0, argDt |-> Zero, xCurr |-> NonFinite,
   vCurr |-> NonFinite, j |-> 0, xNext |-> NonFinite, vNext |-> NonFinite]

\* a first orbit that has just been started, and draw() about to call
\* updatePlanet_Iterative_Subdivided
InitSubdivided ==
  /\ stateIsOrbiting = TRUE
  /\ stateIsSweeping = FALSE
  /\ displayReferenceCircle = FALSE
  /\ programLocked = FALSE
  /\ \E m \in Mags, a \in Angles : orbit = createNewOrbit(m, a)
  /\ sweeps = <<>>
  /\ sweepButton = [display |-> "block", disabled |-> FALSE]
  /\ clearSweepsButton = [display |-> "none", disabled |-> FALSE]
  /\ ticks = 0
  /\ window = NoWindow
  /\ call \in {SubdividedFrame(ic, sc) :
                 ic \in {1, IterCount},
                 sc \in (0 .. MaxSubdiv) \cup {SubdivCount}}

\* the loop body calling updatePlanet_Iterative with the whole dt
subdivided_call_wholeStep ==
  /\ call.pc = "subdivided"
  /\ call.i < call.subdivCount
  /\ call' = [call EXCEPT !.pc = "iterative",
                          !.argIterCount = call.iterCount,
                          !.argDt = call.dt,
                          !.xCurr = orbit.xPlanet,
                          !.vCurr = orbit.vPlanet,
                          !.j = 0]
  /\ UNCHANGED <<simVars, window>>

\* i < subdivCount: updatePlanet_Iterative(iterCount, G, dt/subdivCount)
\* is entered and copies orbit.vPlanet and orbit.xPlanet
subdivided_call ==
  /\ call.pc = "subdivided"
  /\ call.i < call.subdivCount
  /\ call' = [call EXCEPT !.pc = "iterative",
                          !.argIterCount = call.iterCount,
                          !.argDt = RatOver(call.dt, call.subdivCount),
                          !.xCurr = orbit.xPlanet,
                          !.vCurr = orbit.vPlanet,
                          !.j = 0]
  /\ UNCHANGED <<simVars, window>>

\* one pass of the loop of updatePlanet_Iterative: a new guess vNext, xNext
iterative_pass ==
  /\ call.pc = "iterative"
  /\ call.j < call.argIterCount
  /\ \E r \in updatePlanet_Iterative(1, [x |-> call.xCurr, v |-> call.vCurr]) :
       call' = [call EXCEPT !.xNext = r.x, !.vNext = r.v, !.j = @ + 1]
  /\ UNCHANGED <<simVars, window>>

\* orbit.vPlanet = vNext; orbit.xPlanet = xNext; and the call returns to
\* the loop of updatePlanet_Iterative_Subdivided, i++
iterative_commit ==
  /\ call.pc = "iterative"
  /\ call.j >= call.argIterCount
  /\ orbit' = [orbit EXCEPT !.vPlanet = call.vNext, !.xPlanet = call.xNext]
  /\ call' = [call EXCEPT
                !.pc = "subdivided",
                !.i = @ + 1,
                !.calls = Append(@, [iterCount |-> call.argIterCount,
                                     dt |-> call.argDt,
                                     passes |-> call.j])]
  /\ UNCHANGED <<stateIsOrbiting, stateIsSweeping, displayReferenceCircle,
                 programLocked, sweeps, sweepButton, clearSweepsButton,
                 ticks, window>>

\* i < subdivCount fails
subdivided_return ==
  /\ call.pc = "subdivided"
  /\ call.i >= call.subdivCount
  /\ call' = [call EXCEPT !.pc = "returned"]
  /\ UNCHANGED <<simVars, window>>

NextSubdivided ==
  \/ subdivided_call
  \/ iterative_pass
  \/ iterative_commit
  \/ subdivided_return

SpecSubdivided == InitSubdivided /\ [][NextSubdivided]_vars

\* ---- properties ----

\* the orbits createNewOrbit can build
FreshOrbits == {createNewOrbit(m, a) : m \in Mags, a \in Angles}

\* 0 <= r < 1
InUnitInterval(r) == IsFinite(r) /\ 0 <= r.n /\ r.n < r.d

\* C1: after every tick, also the tick that closes the first orbit and
\* every snapped tick, 0 <= orbit.currSnapSubindex < 1.
C1_SubindexInUnitInterval == InUnitInterval(orbit.currSnapSubindex)

\* C2: an orbit is in its first orbit exactly as long as its accumulated
\* angle has not exceeded a full turn; the tick that leaves the first orbit
\* is the one that takes the angle over the full turn and it sets
\* currSnapIndex = 0 and currSnapSubindex = indexCarryOver; from then on
\* isFirstOrbit stays false and indexCarryOver is not recomputed until
\* createNewOrbit replaces the orbit.
C2_ClosureOnce ==
  /\ [](orbit.isFirstOrbit <=> orbit.angularChangeThisOrbit <= TwoPi)
  /\ [][(orbit.isFirstOrbit /\ ~orbit'.isFirstOrbit)
          => /\ orbit.angularChangeThisOrbit <= TwoPi
             /\ orbit'.angularChangeThisOrbit > TwoPi
             /\ orbit'.currSnapIndex = 0
             /\ orbit'.currSnapSubindex = orbit'.indexCarryOver]_vars
  /\ [][~orbit.isFirstOrbit
          => \/ /\ ~orbit'.isFirstOrbit
                /\ orbit'.indexCarryOver = orbit.indexCarryOver
                /\ orbit'.angularChangeThisOrbit
                     = orbit.angularChangeThisOrbit
             \/ /\ orbit' \in FreshOrbits
                /\ stateIsOrbiting /\ ~stateIsOrbiting']_vars

\* a snapped orbit whose subindex has moved off the carry-over: it has
\* wrapped at least once since the closure
C2_Witness ==
  /\ stateIsOrbiting /\ ~orbit.isFirstOrbit
  /\ orbit.currSnapSubindex # orbit.indexCarryOver

\* C3: once the orbit is snapped, no step changes firstOrbitPath (length or
\* elements) until createNewOrbit replaces the orbit.
C3_PathFrozenInReplay ==
  [][~orbit.isFirstOrbit
       => \/ orbit'.firstOrbitPath = orbit.firstOrbitPath
          \/ orbit' \in FreshOrbits]_vars

\* a snapped orbit right after a wrap whose subindex overflowed
C3_Witness ==
  /\ stateIsOrbiting /\ ~orbit.isFirstOrbit
  /\ orbit.currSnapIndex = 1 /\ orbit.currSnapSubindex = Zero

\* C4: in the first orbit firstOrbitPath.length is 1 + the number of ticks
\* since the orbit was created, and the path is never empty.
C4_PathLengthIsTicksPlusOne ==
  /\ Len(orbit.firstOrbitPath) >= 1
  /\ orbit.isFirstOrbit => Len(orbit.firstOrbitPath) = ticks + 1

\* a first orbit three ticks old
C4_Witness ==
  /\ stateIsOrbiting /\ orbit.isFirstOrbit
  /\ ticks = 3 /\ Len(orbit.firstOrbitPath) = 4

\* C5: a snapped tick with weight (currSnapSubindex) 0 puts the planet
\* exactly on firstOrbitPath[currSnapIndex].  In a snapped orbit the
\* subindex is 0 only after a wrap, so the planet's position is then the
\* one the last snapped tick interpolated.
C5_WeightZeroIsFirstPoint ==
  (stateIsOrbiting /\ ~orbit.isFirstOrbit /\ orbit.currSnapSubindex = Zero)
    => orbit.xPlanet = orbit.firstOrbitPath[orbit.currSnapIndex + 1]

\* C6: angularChangeThisOrbit never decreases except when createNewOrbit
\* replaces the orbit (on a press of the orbit button), and it does not
\* change at all on a step of a snapped orbit or while not orbiting.
C6_AngleMonotone ==
  /\ [][orbit'.angularChangeThisOrbit < orbit.angularChangeThisOrbit
          => /\ orbit' \in FreshOrbits
             /\ stateIsOrbiting /\ ~stateIsOrbiting']_vars
  /\ [][(stateIsOrbiting' = stateIsOrbiting
           /\ (~stateIsOrbiting \/ ~orbit.isFirstOrbit))
          => orbit'.angularChangeThisOrbit
               = orbit.angularChangeThisOrbit]_vars

\* a first orbit whose second step turned clockwise (signed angle < 0) and
\* was still added to the accumulated angle
C6_Witness ==
  /\ stateIsOrbiting /\ orbit.isFirstOrbit
  /\ Len(orbit.firstOrbitPath) = 3
  /\ angleBetween(orbit.firstOrbitPath[2], orbit.firstOrbitPath[3]) < 0
  /\ orbit.angularChangeThisOrbit >= 2

\* the launch velocity for input magnitude m and angle a (degrees):
\* (m/30 cos a, -m/30 sin a)
LaunchVelocity(m, a) ==
  IF a = 0 THEN [x |-> m \div 30, y |-> 0, d |-> 1]
  ELSE [x |-> 0, y |-> -(m \div 30), d |-> 1]

\* C7: starting an orbit leaves an orbit at (0,-1) with the launch
\* velocity, in its first orbit, with a path holding only the initial
\* position, and with a zero accumulated angle, snap index, subindex and
\* carry-over.
C7_StartOrbitIsFresh ==
  [][\A m \in Mags, a \in Angles :
       (~stateIsOrbiting /\ toggleOrbit(m, a))
         => /\ stateIsOrbiting'
            /\ orbit'.xPlanet = [x |-> 0, y |-> -1, d |-> 1]
            /\ orbit'.vPlanet = LaunchVelocity(m, a)
            /\ orbit'.isFirstOrbit
            /\ orbit'.firstOrbitPath = <<[x |-> 0, y |-> -1, d |-> 1]>>
            /\ orbit'.angularChangeThisOrbit = 0
            /\ orbit'.currSnapIndex = 0
            /\ orbit'.currSnapSubindex = Zero
            /\ orbit'.indexCarryOver = Zero]_vars

\* an orbit just started: orbiting, no tick yet, sweep button shown
C7_Witness ==
  /\ stateIsOrbiting /\ ticks = 0
  /\ orbit \in FreshOrbits
  /\ sweepButton.display = "block"

\* C8: a step of a snapped orbit that keeps orbiting (a tick, or a press of
\* the sweep buttons) leaves vPlanet, firstOrbitPath, isFirstOrbit, the
\* accumulated angle and indexCarryOver unchanged; only xPlanet,
\* currSnapIndex and currSnapSubindex may change.
C8_ReplayKeepsVelocity ==
  [][(stateIsOrbiting /\ stateIsOrbiting' /\ ~orbit.isFirstOrbit)
       => /\ orbit'.vPlanet = orbit.vPlanet
          /\ orbit' = [orbit EXCEPT
                         !.xPlanet = orbit'.xPlanet,
                         !.currSnapIndex = orbit'.currSnapIndex,
                         !.currSnapSubindex = orbit'.currSnapSubindex]]_vars

\* a snapped orbit two points into its replay, the planet moved off the
\* position of the closing tick
C8_Witness ==
  /\ stateIsOrbiting /\ ~orbit.isFirstOrbit
  /\ orbit.currSnapIndex = 2
  /\ orbit.xPlanet # orbit.firstOrbitPath[Len(orbit.firstOrbitPath)]

\* C9: sweeps.length <= sweepMax in every reachable state.
C9_SweepsBounded == Len(sweeps) <= sweepMax

\* sweepMax sweeps ended, the sweep button disabled
C9_Witness ==
  /\ Len(sweeps) = sweepMax /\ ~stateIsSweeping
  /\ sweepButton.disabled

\* C10: a press of the orbit button while orbiting leaves sweeps empty,
\* stateIsSweeping and stateIsOrbiting false and the sweep button enabled;
\* a press of the clear-sweeps button leaves sweeps empty.  (The first
\* conjunct is the implication from the press to its outcome, written with
\* the outcome first.)
C10_EndOrbitClearsSweeps ==
  /\ [][\/ /\ sweeps' = <<>>
           /\ ~stateIsSweeping'
           /\ ~stateIsOrbiting'
           /\ ~sweepButton'.disabled
        \/ ~(stateIsOrbiting /\ button_toggleOrbit)]_vars
  /\ [][button_clearAllSweeps => sweeps' = <<>>]_vars

\* orbiting with the sweepMax-th sweep in progress and points recorded:
\* the state the orbit button is pressed in
C10_Witness ==
  /\ stateIsOrbiting /\ stateIsSweeping
  /\ Len(sweeps) = sweepMax
  /\ SweepPts(sweeps) > 0

\* C11: replay periodicity.  When a window of firstOrbitPath.length
\* consecutive replay ticks is complete, currSnapIndex + currSnapSubindex
\* equals its value at the start of the window plus indexCarryOver for
\* each wrap of the window, modulo firstOrbitPath.length (with an infinite
\* indexCarryOver both sides are Infinity).
C11_ReplayPeriodic ==
  (window.open /\ window.n = Len(orbit.firstOrbitPath)) =>
    /\ window.wraps >= 1
    /\ \E k \in 0 .. window.wraps :
         RatAdd(Pointer(orbit), Ratio(k * Len(orbit.firstOrbitPath), 1))
           = RatAdd(window.start,
                    RatTimes(orbit.indexCarryOver, window.wraps))

\* a complete window with two wraps: it started on the last path index and
\* its first wrap overflowed the subindex
C11_Witness ==
  /\ window.open
  /\ window.n = Len(orbit.firstOrbitPath)
  /\ window.wraps = 2
  /\ IsFinite(orbit.indexCarryOver)
  /\ orbit.indexCarryOver # Zero

\* C12: getSweepAreaInAU2 returns exactly 0 for the empty path and for
\* every path of one point, and its loop takes no triangle from such a
\* path, so it reads none of its elements.
C12_DegeneratePathIsZero ==
  (call.pc = "returned" /\ Len(call.sweepPath) < 2) =>
    /\ call.total = 0
    /\ sweepSegments(call.sweepPath) = <<>>

\* the call has returned for a path of one point
C12_Witness ==
  /\ call.pc = "returned"
  /\ Len(call.sweepPath) = 1
  /\ call.total = 0

\* C13: for every sweep path, getSweepAreaInAU2 of the path equals
\* getSweepAreaInAU2 of its reverse-order copy.
C13_AreaOfReverseIsEqual ==
  call.pc = "returned" =>
    SameNumber(call.total, getSweepAreaInAU2(Reverse(call.sweepPath)))

C15_LockReleased ==
  /\ programLocked <=> call.pc # "none"
  /\ call.pc = "none" => ~programLocked

\* all four handlers have run and returned: the orbit runs, a sweep was
\* recorded and cleared, the reference circle is shown
C15_Witness ==
  /\ call.pc = "none"
  /\ ~programLocked
  /\ stateIsOrbiting
  /\ displayReferenceCircle
  /\ sweeps = <<>>
  /\ clearSweepsButton.display = "block"

\* C16: updatePlanet_Iterative_Subdivided(iterCount, subdivCount, G, dt)
\* makes exactly subdivCount calls of updatePlanet_Iterative, one after the
\* other, each with the time step dt/subdivCount and the same iterCount
\* (that many passes), each starting from the position and velocity the
\* previous call committed to orbit; with the arguments of draw(), 5 and
\* 25, that is 25 sub-steps of 5 iterations with time step 0.011/25.
C16_SubdividedCalls ==
  /\ call.pc = "iterative" =>
       call.xCurr = orbit.xPlanet /\ call.vCurr = orbit.vPlanet
  /\ call.pc = "returned" =>
       /\ Len(call.calls) = call.subdivCount
       /\ \A k \in 1 .. Len(call.calls) :
            call.calls[k] = [iterCount |-> call.iterCount,
                             dt |-> RatOver(call.dt, call.subdivCount),
                             passes |-> call.iterCount]
  /\ (call.pc = "returned" /\ call.iterCount = IterCount
        /\ call.subdivCount = SubdivCount) =>
       /\ Len(call.calls) = 25
       /\ \A k \in 1 .. 25 :
            call.calls[k] = [iterCount |-> 5, dt |-> Ratio(11, 25000),
                             passes |-> 5]

\* the call with the arguments of draw() has returned after moving the
\* planet
C16_Witness ==
  /\ call.pc = "returned"
  /\ call.iterCount = IterCount
  /\ call.subdivCount = SubdivCount
  /\ Len(call.calls) = 25
  /\ orbit.xPlanet # createVector(0, -1)

\* C17: the index a replay tick hands to interpolatePosition is in bounds,
\* 0 <= currSnapIndex < firstOrbitPath.length, also on the tick that
\* wraps and increments the index again (currSnapIndex is assigned just
\* before the call and not after it, so every state shows the index of the
\* last call).
C17_SnapIndexInBounds ==
  /\ 0 <= orbit.currSnapIndex
  /\ orbit.currSnapIndex < Len(orbit.firstOrbitPath)

\* after a wrap that overflowed the subindex: with indexCarryOver = 1/2
\* the subindex is 0 only after such a wrap, and the index is then 1
C17_Witness ==
  /\ stateIsOrbiting
  /\ ~orbit.isFirstOrbit
  /\ orbit.indexCarryOver = Ratio(1, 2)
  /\ orbit.currSnapSubindex = Zero
  /\ orbit.currSnapIndex = 1
  /\ orbit.xPlanet = orbit.firstOrbitPath[3]

\* C18: in every reachable state stateIsSweeping implies stateIsOrbiting
\* and sweeps.length >= 1, and no empty sweep is left in sweeps when a
\* frame is drawn: the only sweep that may be empty between two frames is
\* the last one while it is being recorded, which the frame's tick fills
\* before anything is drawn.
C18_NoEmptySweepAtFrame ==
  /\ stateIsSweeping => (stateIsOrbiting /\ Len(sweeps) >= 1)
  /\ \A i \in 1 .. Len(sweeps) :
       sweeps[i] = <<>> =>
         (stateIsOrbiting /\ stateIsSweeping /\ i = Len(sweeps))

\* C19: a frame drawn while stateIsOrbiting is false changes nothing in
\* orbit and sweeps, however many such frames are drawn: no step that
\* starts and ends with stateIsOrbiting false changes either of them.
C19_IdleFrameChangesNothing ==
  [][(~stateIsOrbiting /\ ~stateIsOrbiting') =>
       (orbit' = orbit /\ sweeps' = sweeps)]_vars

\* frames are drawn on a stopped orbit: it is as createNewOrbit made it
C19_Witness ==
  /\ ~stateIsOrbiting
  /\ orbit \in FreshOrbits
  /\ sweeps = <<>>
  /\ ticks = 0
  /\ sweepButton.display = "none"

====
